---- MODULE Spec2Model ----
(***************************************************************************)
(* A model of src/code.py: the trend segmenter (find_monotonicity), the    *)
(* signal extractors (find_reasonable_times_to_sell / _to_buy) and the two *)
(* recursive strategy tree builders (compute_all_possible_trading_         *)
(* strategies, compute_smart_possible_trading_strategies).                 *)
(*                                                                         *)
(* Prices and money are integers: a price is a number of smallest price    *)
(* increments and money is counted in the same unit, so that //, * and -   *)
(* are exact.  A run is one call of one of the five functions; `entry'     *)
(* names the function and Init draws its arguments.  The builders are      *)
(* executed as Python executes them: a stack of call frames, one frame per *)
(* active call, each frame iterating over the keys of its dict             *)
(* comprehension in index order and collecting the children returned.      *)
(* The branch that raises RuntimeError (a state with neither 'money' nor   *)
(* 'asset') has no action: no call made from a state that holds money      *)
(* reaches it, which C3_CanStep states.                                    *)
(***************************************************************************)
EXTENDS Integers, Sequences, FiniteSets, TLC

\* ---------------------------------------------------------------- bounds
MaxLen == 5      \* longest price column handed to the trend segmenter
MaxVal == 3      \* price column entries are drawn from 1..MaxVal
NumTimes == 3    \* timestamps of the trading table are 0..NumTimes-1
MaxPrice == 3    \* bid and ask prices of the trading table are 1..MaxPrice
MaxMoney == 3    \* the root call starts with money in 0..MaxMoney

\* float('Inf') of the root state and the NaN of pandas, as values no price
\* and no difference of trends can take.
Inf == -1
NaN == 9

VARIABLES
    entry,          \* the function this run calls
    price,          \* find_*: the price column, price[t+1] is the price at time t
    monotonicity,   \* find_monotonicity: the returned array
    good_times,     \* find_reasonable_times_to_*: the returned index, as a set
    trading_data,   \* builders: the price table, time -> [ask, bid]
    args,           \* builders: the arguments of the root call
    stack,          \* builders: the active calls, the root call first
    strategies,     \* builders: the tree the root call returned
    pc              \* "run", "done", or "IndexError" (find_monotonicity raised)

vars == <<entry, price, monotonicity, good_times, trading_data, args, stack,
          strategies, pc>>

ALL == "compute_all_possible_trading_strategies"
SMART == "compute_smart_possible_trading_strategies"

\* ------------------------------------------------------- trend segmenter
Sign(x) == IF x > 0 THEN 1 ELSE IF x < 0 THEN -1 ELSE 0

\* numpy.diff(a)
Diff(a) == [k \in 1..(Len(a) - 1) |-> a[k + 1] - a[k]]

\* numpy.where(d!=0)[0]: the indices of the nonzero differences
Nonzero(d) == {k \in 1..Len(d) : d[k] # 0}

\* numpy.where(d!=0)[0][0] raises IndexError when no difference is nonzero
Raises(a) == Nonzero(Diff(a)) = {}

InitialSignOfFirstEntry(d) == Sign(d[1])

\* numpy.sign(d[numpy.where(d!=0)[0][0]])
InitialSign(d) ==
    LET first == CHOOSE k \in Nonzero(d) : \A j \in Nonzero(d) : k <= j
    IN  Sign(d[first])

LoopBodyFlatReverses(d, m, k) ==
    IF Sign(d[k]) = Sign(m[k - 1])
    THEN [m EXCEPT ![k] = m[k - 1]]
    ELSE [m EXCEPT ![k] = -1 * m[k - 1]]

\* The body of the loop for index k (Python's i = k - 1).
LoopBody(d, m, k) ==
    IF d[k] = 0 \/ Sign(d[k]) = Sign(m[k - 1])
    THEN [m EXCEPT ![k] = m[k - 1]]
    ELSE [m EXCEPT ![k] = -1 * m[k - 1]]

RECURSIVE Loop(_, _, _)
Loop(d, m, k) == IF k > Len(d) THEN m ELSE Loop(d, LoopBody(d, m, k), k + 1)

find_monotonicity(a) ==
    LET d == Diff(a)
        zeros == [k \in 1..Len(d) |-> d[k] * 0]
    IN  Loop(d, [zeros EXCEPT ![1] = InitialSign(d)], 2)

\* ------------------------------------------------------ signal extractor
\* A pandas Series is a function from its index to its values.  The series
\* built from find_monotonicity(a) has index price.index[1:] = 1..Len(a)-1,
\* which is the domain of the array as a TLA+ sequence.
SeriesDiff(s) ==
    [t \in DOMAIN s |-> IF t - 1 \in DOMAIN s THEN s[t] - s[t - 1] ELSE NaN]

ShiftForward(s) ==
    [t \in DOMAIN s |-> IF t - 1 \in DOMAIN s THEN s[t - 1] ELSE NaN]

\* Series.shift(-1)
ShiftBack(s) ==
    [t \in DOMAIN s |-> IF t + 1 \in DOMAIN s THEN s[t + 1] ELSE NaN]

\* Comparisons with NaN are False.
Negative(x) == x # NaN /\ x < 0
Positive(x) == x # NaN /\ x > 0

find_reasonable_times_to_sell(price_bid) ==
    LET monotonicity_bid == find_monotonicity(price_bid)
        diffs == SeriesDiff(monotonicity_bid)
    IN  {t \in DOMAIN diffs : Negative(ShiftBack(diffs)[t])}

find_reasonable_times_to_buy(price_ask) ==
    LET monotonicity_ask == find_monotonicity(price_ask)
        diffs == SeriesDiff(monotonicity_ask)
    IN  {t \in DOMAIN diffs : Positive(ShiftBack(diffs)[t])}

\* ------------------------------------------------- strategy tree builders
Times == 0..(NumTimes - 1)
Prices == 1..MaxPrice

\* index[index > x]: the candidates strictly later than the decision time x
LaterOrEqual(times, x) == {t \in times : t >= x}

Later(times, x) == {t \in times : t > x}

\* trading_data.loc[t, ('price','ask')] and trading_data.loc[t, ('price','bid')]
Ask(td, t) == td[t].ask
Bid(td, t) == td[t].bid

\* 'money' in current_state / 'asset' in current_state
HasMoney(current_state) == "money" \in DOMAIN current_state
HasAsset(current_state) == "asset" \in DOMAIN current_state

\* x < current_state['sold_price'], where sold_price may be float('Inf')
LessThan(x, sold_price) == sold_price = Inf \/ x < sold_price

BuyStateSavingsNotScaled(current_state, ask) ==
    [asset |-> current_state.money \div ask,
     savings |-> current_state.money - (current_state.money \div ask)]

\* The state handed to the child of a buy, exhaustive builder.
BuyStateAll(current_state, ask) ==
    [asset |-> current_state.money \div ask,
     savings |-> current_state.money - (current_state.money \div ask) * ask]

\* The state handed to the child of a sell, exhaustive builder.
SellStateAll(current_state, bid) ==
    [money |-> current_state.asset * bid + current_state.savings]

\* The state handed to the child of a buy, pruning builder.
BuyStateSmart(current_state, ask) ==
    [asset |-> current_state.money \div ask,
     savings |-> current_state.money - (current_state.money \div ask) * ask,
     paid_price |-> ask]

SellStateSmartDropsSavings(current_state, bid) ==
    [money |-> current_state.asset * bid,
     sold_price |-> bid]

\* The state handed to the child of a sell, pruning builder.
SellStateSmart(current_state, bid) ==
    [money |-> current_state.asset * bid + current_state.savings,
     sold_price |-> bid]

BuyKeysSmartNotStrict(td, good_times_to_buy, current_state) ==
    {t \in good_times_to_buy :
        Ask(td, t) = current_state.sold_price
        \/ LessThan(Ask(td, t), current_state.sold_price)}

\* times_with_ask_price_better_than_what_I_paid
BuyKeysSmart(td, good_times_to_buy, current_state) ==
    {t \in good_times_to_buy : LessThan(Ask(td, t), current_state.sold_price)}

SellKeysSmartInverted(td, good_times_to_sell, current_state) ==
    {t \in good_times_to_sell : Bid(td, t) < current_state.paid_price}

\* times_with_bid_price_better_than_what_I_got
SellKeysSmart(td, good_times_to_sell, current_state) ==
    {t \in good_times_to_sell : Bid(td, t) > current_state.paid_price}

KeysSellOverBuyTimes(fn, td, good_times_to_buy, good_times_to_sell, current_state) ==
    IF fn = ALL
    THEN good_times_to_buy
    ELSE IF HasMoney(current_state)
         THEN BuyKeysSmart(td, good_times_to_buy, current_state)
         ELSE SellKeysSmart(td, good_times_to_sell, current_state)

\* The keys the dict comprehension of a call iterates over.
Keys(fn, td, good_times_to_buy, good_times_to_sell, current_state) ==
    IF fn = ALL
    THEN IF HasMoney(current_state) THEN good_times_to_buy ELSE good_times_to_sell
    ELSE IF HasMoney(current_state)
         THEN BuyKeysSmart(td, good_times_to_buy, current_state)
         ELSE SellKeysSmart(td, good_times_to_sell, current_state)

\* The current_state of the recursive call made for key x.
ChildState(fn, td, current_state, x) ==
    IF fn = ALL
    THEN IF HasMoney(current_state)
         THEN BuyStateAll(current_state, Ask(td, x))
         ELSE SellStateAll(current_state, Bid(td, x))
    ELSE IF HasMoney(current_state)
         THEN BuyStateSmart(current_state, Ask(td, x))
         ELSE SellStateSmart(current_state, Bid(td, x))

\* A pandas Index is iterated in its order, which is ascending time.
RECURSIVE Ascending(_)
Ascending(S) ==
    IF S = {} THEN <<>>
    ELSE LET least == CHOOSE x \in S : \A y \in S : x <= y
         IN  <<least>> \o Ascending(S \ {least})

\* The frame of a call: its arguments, the keys of its comprehension and
\* the children collected so far (key -> returned dict).
Frame(fn, td, good_times_to_buy, good_times_to_sell, current_state) ==
    [good_times_to_buy |-> good_times_to_buy,
     good_times_to_sell |-> good_times_to_sell,
     current_state |-> current_state,
     keys |-> Ascending(Keys(fn, td, good_times_to_buy, good_times_to_sell,
                             current_state)),
     children |-> <<>>]

\* current_state | {key: child, ...}: the state's fields and the children.
Node(current_state, children) ==
    [state |-> current_state, children |-> children]

Pending(f) == Cardinality(DOMAIN f.children) < Len(f.keys)

\* The loop variable (buy_here / sell_here) of a frame with a call pending.
Here(f) == f.keys[Cardinality(DOMAIN f.children) + 1]

\* The frame of the recursive call a frame makes for its loop variable.
ChildFrame(fn, td, f) ==
    Frame(fn, td,
          Later(f.good_times_to_buy, Here(f)),
          Later(f.good_times_to_sell, Here(f)),
          ChildState(fn, td, f.current_state, Here(f)))

\* The value a call returns, as the function computes it.
RECURSIVE TreeOf(_, _, _, _, _)
TreeOf(fn, td, good_times_to_buy, good_times_to_sell, current_state) ==
    Node(current_state,
         [x \in Keys(fn, td, good_times_to_buy, good_times_to_sell, current_state)
            |-> TreeOf(fn, td, Later(good_times_to_buy, x),
                       Later(good_times_to_sell, x),
                       ChildState(fn, td, current_state, x))])

\* ------------------------------------------------------------ the runs
NoArgs == [good_times_to_buy |-> {}, good_times_to_sell |-> {},
           current_state |-> [money |-> 0]]
NoTree == Node([money |-> 0], <<>>)

\* The columns: every sequence of 1..MaxLen prices.
Columns == UNION {[1..n -> 1..MaxVal] : n \in 1..MaxLen}

\* The price tables for given candidate sets.  Entries that no builder reads
\* (the ask price at a time that is no buy candidate, the bid price at a time
\* that is no sell candidate) are fixed at 1.
Tables(buy, sell) ==
    {[t \in Times |-> [ask |-> IF t \in buy THEN asks[t] ELSE 1,
                       bid |-> IF t \in sell THEN bids[t] ELSE 1]] :
        asks \in [buy -> Prices], bids \in [sell -> Prices]}

RootState(fn, money) ==
    IF fn = ALL THEN [money |-> money]
    ELSE [money |-> money, sold_price |-> Inf]

\* A run of one of the find_* functions: the column it is called with.
InitSignal ==
    /\ entry \in {"find_monotonicity", "find_reasonable_times_to_sell",
                  "find_reasonable_times_to_buy"}
    /\ price \in Columns
    /\ trading_data = <<>>
    /\ args = NoArgs
    /\ stack = <<>>

\* A run of one of the builders: the root call, with a price table, the
\* candidate sets and a state that holds money.
InitBuilder ==
    /\ entry \in {ALL, SMART}
    /\ price = <<>>
    /\ \E buy \in SUBSET Times, sell \in SUBSET Times, money \in 0..MaxMoney :
          /\ trading_data \in Tables(buy, sell)
          /\ args = [good_times_to_buy |-> buy, good_times_to_sell |-> sell,
                     current_state |-> RootState(entry, money)]
          /\ stack = <<Frame(entry, trading_data, buy, sell,
                             RootState(entry, money))>>

Init ==
    /\ InitSignal \/ InitBuilder
    /\ monotonicity = <<>>
    /\ good_times = {}
    /\ strategies = NoTree
    /\ pc = "run"

Top == stack[Len(stack)]

FindMonotonicity ==
    /\ pc = "run" /\ entry = "find_monotonicity"
    /\ IF Raises(price)
       THEN pc' = "IndexError" /\ UNCHANGED monotonicity
       ELSE pc' = "done" /\ monotonicity' = find_monotonicity(price)
    /\ UNCHANGED <<entry, price, good_times, trading_data, args, stack, strategies>>

FindTimesToSell ==
    /\ pc = "run" /\ entry = "find_reasonable_times_to_sell"
    /\ IF Raises(price)
       THEN pc' = "IndexError" /\ UNCHANGED good_times
       ELSE pc' = "done" /\ good_times' = find_reasonable_times_to_sell(price)
    /\ UNCHANGED <<entry, price, monotonicity, trading_data, args, stack, strategies>>

FindTimesToBuy ==
    /\ pc = "run" /\ entry = "find_reasonable_times_to_buy"
    /\ IF Raises(price)
       THEN pc' = "IndexError" /\ UNCHANGED good_times
       ELSE pc' = "done" /\ good_times' = find_reasonable_times_to_buy(price)
    /\ UNCHANGED <<entry, price, monotonicity, trading_data, args, stack, strategies>>

\* The frame on top of the stack is the call that is running; it makes
\* the recursive call for the next key of its comprehension.
Recurse == stack' = Append(stack, ChildFrame(entry, trading_data, Top))

\* compute_all_possible_trading_strategies, branch 'money' in current_state
BuyAll ==
    /\ pc = "run" /\ entry = ALL /\ stack # <<>>
    /\ HasMoney(Top.current_state)
    /\ Pending(Top)
    /\ Recurse
    /\ UNCHANGED <<entry, price, monotonicity, good_times, trading_data, args,
                   strategies, pc>>

\* compute_all_possible_trading_strategies, branch 'asset' in current_state
SellAll ==
    /\ pc = "run" /\ entry = ALL /\ stack # <<>>
    /\ ~HasMoney(Top.current_state) /\ HasAsset(Top.current_state)
    /\ Pending(Top)
    /\ Recurse
    /\ UNCHANGED <<entry, price, monotonicity, good_times, trading_data, args,
                   strategies, pc>>

\* compute_smart_possible_trading_strategies, branch 'money' in current_state
BuySmart ==
    /\ pc = "run" /\ entry = SMART /\ stack # <<>>
    /\ HasMoney(Top.current_state)
    /\ Pending(Top)
    /\ Recurse
    /\ UNCHANGED <<entry, price, monotonicity, good_times, trading_data, args,
                   strategies, pc>>

\* compute_smart_possible_trading_strategies, branch 'asset' in current_state
SellSmart ==
    /\ pc = "run" /\ entry = SMART /\ stack # <<>>
    /\ ~HasMoney(Top.current_state) /\ HasAsset(Top.current_state)
    /\ Pending(Top)
    /\ Recurse
    /\ UNCHANGED <<entry, price, monotonicity, good_times, trading_data, args,
                   strategies, pc>>

\* The comprehension of the top frame is exhausted: the call returns its dict
\* to the caller, which stores it under its loop variable and moves on.
Return ==
    /\ pc = "run" /\ stack # <<>>
    /\ ~Pending(Top)
    /\ LET n == Len(stack)
           node == Node(Top.current_state, Top.children)
       IN  IF n = 1
           THEN /\ strategies' = node
                /\ stack' = <<>>
                /\ pc' = "done"
           ELSE /\ stack' = [SubSeq(stack, 1, n - 1) EXCEPT ![n - 1].children =
                                @ @@ (Here(stack[n - 1]) :> node)]
                /\ UNCHANGED <<strategies, pc>>
    /\ UNCHANGED <<entry, price, monotonicity, good_times, trading_data, args>>

Next ==
    \/ FindMonotonicity
    \/ FindTimesToSell
    \/ FindTimesToBuy
    \/ BuyAll
    \/ SellAll
    \/ BuySmart
    \/ SellSmart
    \/ Return

Spec == Init /\ [][Next]_vars

\* ------------------------------------------------------- helper notions
IsBuilder == entry \in {ALL, SMART}

\* The decision time on the edge from frame i of the stack to frame i + 1:
\* the loop variable of the caller while the call is running.
Key(i) == Here(stack[i])

Card(S) == Cardinality(S)

ProperSubset(A, B) == A \subseteq B /\ A # B

Max(S) == CHOOSE x \in S : \A y \in S : y <= x

\* The number of decision edges on the longest root-to-leaf path of a tree.
RECURSIVE Depth(_)
Depth(node) ==
    IF DOMAIN node.children = {} THEN 0
    ELSE 1 + Max({Depth(node.children[x]) : x \in DOMAIN node.children})

\* <<path, money>> for every node of a tree that holds money, the path being
\* the decision times from the root; leavesOnly keeps the leaves.
RECURSIVE PathMoney(_, _, _)
PathMoney(node, path, leavesOnly) ==
    (IF HasMoney(node.state) /\ (~leavesOnly \/ DOMAIN node.children = {})
     THEN {<<path, node.state.money>>} ELSE {})
    \cup UNION {PathMoney(node.children[x], Append(path, x), leavesOnly) :
                  x \in DOMAIN node.children}

LeafMoney(node) == {pm[2] : pm \in PathMoney(node, <<>>, TRUE)}

\* The tree the exhaustive builder returns for the arguments of this run.
ExhaustiveTree ==
    TreeOf(ALL, trading_data, args.good_times_to_buy, args.good_times_to_sell,
           [money |-> args.current_state.money])

\* The tree a finished run returned is the one the function computes.
ReturnsTreeOf ==
    (pc = "done" /\ IsBuilder) =>
        strategies = TreeOf(entry, trading_data, args.good_times_to_buy,
                            args.good_times_to_sell, args.current_state)

\* ------------------------------------------------------------- claims

\* C1: every buy step of either builder conserves money: the child's
\* asset * ask + savings equals the caller's money, and 0 <= savings < ask;
\* with money < ask the asset is 0.
C1_ConservationLaw ==
    \A i \in 1..(Len(stack) - 1) :
        HasMoney(stack[i].current_state) =>
            LET money == stack[i].current_state.money
                ask == Ask(trading_data, Key(i))
                child == stack[i + 1].current_state
            IN  /\ child.asset * ask + child.savings = money
                /\ 0 <= child.savings /\ child.savings < ask
                /\ (money < ask => child.asset = 0)

C1_Witness ==
    /\ IsBuilder /\ Len(stack) >= 2
    /\ \E i \in 1..(Len(stack) - 1) :
          /\ HasMoney(stack[i].current_state)
          /\ stack[i].current_state.money > 0
          /\ stack[i].current_state.money < Ask(trading_data, Key(i))
          /\ stack[i + 1].current_state.asset = 0

\* C2 as stated: every money value held by a leaf of the pruned tree is the
\* money value of some leaf of the exhaustive tree for the same inputs.
C2_LeafMoneyOfSmartAmongLeavesOfAll ==
    (pc = "done" /\ entry = SMART) =>
        LeafMoney(strategies) \subseteq LeafMoney(ExhaustiveTree)

\* C2 amended: every leaf of the pruned tree that holds money is a node of
\* the exhaustive tree, reached by the same decision times and holding the
\* same money; that node need not be a leaf.
C2_LeavesOfSmartAreNodesOfAll ==
    (pc = "done" /\ entry = SMART) =>
        PathMoney(strategies, <<>>, TRUE)
            \subseteq PathMoney(ExhaustiveTree, <<>>, FALSE)

C2_Witness ==
    /\ pc = "done" /\ entry = SMART
    /\ \E pm \in PathMoney(strategies, <<>>, TRUE) :
          /\ Len(pm[1]) >= 2
          /\ pm[2] \notin LeafMoney(ExhaustiveTree)

\* |buy_times| + |sell_times| of the root call.
C3_Bound == Card(args.good_times_to_buy) + Card(args.good_times_to_sell)

\* No path, in the calls that are running or in the tree returned, has more
\* than C3_Bound decision edges.
C3_DepthBound ==
    IsBuilder =>
        /\ Len(stack) - 1 <= C3_Bound
        /\ pc = "done" => Depth(strategies) <= C3_Bound

\* The stack read as a number in base C3_Base, one digit per frame from the
\* root down: the keys of the frame's comprehension that have not returned
\* yet, and the largest digit where there is no frame.  A call puts a frame
\* where there was none; a return removes the last frame and lowers the digit
\* of its caller.
C3_Base == NumTimes + 2

C3_Digit(j) ==
    IF j <= Len(stack)
    THEN Len(stack[j].keys) - Card(DOMAIN stack[j].children)
    ELSE C3_Base - 1

RECURSIVE C3_Number(_)
C3_Number(j) == IF j = 0 THEN 0 ELSE C3_Number(j - 1) * C3_Base + C3_Digit(j)

C3_Measure == IF pc = "run" THEN 1 + C3_Number(C3_Bound + 1) ELSE 0

\* A builder run that has not returned can take a step: the running call
\* either has a key left, and a state that holds money or an asset to make
\* the call for it, or has none left and returns.
C3_CanStep ==
    (IsBuilder /\ pc = "run") =>
        /\ stack # <<>>
        /\ Pending(Top) =>
              (HasMoney(Top.current_state) \/ HasAsset(Top.current_state))

\* C3: both builders terminate, and no root-to-leaf path has more than
\* |buy_times| + |sell_times| decision edges.  Termination is stated without
\* fairness: a run that has not returned can take a step, and every step
\* lowers C3_Measure, a natural number, so a run has finitely many steps.
C3_TerminatesWithinDepth ==
    /\ [](C3_DepthBound /\ C3_CanStep)
    /\ [][C3_Measure' < C3_Measure]_vars

C3_Witness ==
    /\ pc = "done" /\ IsBuilder
    /\ Depth(strategies) = 3
    /\ Card(args.good_times_to_buy) + Card(args.good_times_to_sell) = 3

\* C4: in the pruned tree the children of a Cash state are exactly the buy
\* candidates later than its decision time whose ask is strictly below its
\* sold_price (+infinity at the root, else the bid of the sell that made
\* it), and the children of a Position state are exactly the sell candidates
\* later than its decision time whose bid is strictly above its paid_price
\* (the ask of the buy that made it).
C4_PrunedChildren ==
    entry = SMART =>
        \A i \in 1..Len(stack) :
            LET f == stack[i]
                state == f.current_state
                children == {f.keys[j] : j \in 1..Len(f.keys)}
                later(t) == i = 1 \/ t > Key(i - 1)
            IN  IF HasMoney(state)
                THEN /\ state.sold_price =
                            (IF i = 1 THEN Inf ELSE Bid(trading_data, Key(i - 1)))
                     /\ children =
                            {t \in args.good_times_to_buy :
                                /\ later(t)
                                /\ \/ state.sold_price = Inf
                                   \/ Ask(trading_data, t) < state.sold_price}
                ELSE /\ state.paid_price = Ask(trading_data, Key(i - 1))
                     /\ children =
                            {t \in args.good_times_to_sell :
                                /\ later(t)
                                /\ Bid(trading_data, t) > state.paid_price}

C4_Witness ==
    /\ entry = SMART /\ Len(stack) = 3
    /\ \E t \in args.good_times_to_buy :
          /\ t > Key(2)
          /\ Ask(trading_data, t) = stack[3].current_state.sold_price
    /\ stack[3].keys = <<>>
    /\ Len(stack[2].keys) = 1
    /\ Card(args.good_times_to_sell) >= 2

\* The times t of a column where the trend of the step ending at t is
\* `before' and the trend of the step starting at t is `after'.
TurningPoints(column, before, after) ==
    LET trend == find_monotonicity(column)
    IN  {t \in 0..(Len(column) - 1) :
            /\ t \in DOMAIN trend /\ trend[t] = before
            /\ t + 1 \in DOMAIN trend /\ trend[t + 1] = after}

\* C5: find_reasonable_times_to_sell returns exactly the times t where the
\* trend of the step ending at t is +1 and that of the step starting at t is
\* -1, find_reasonable_times_to_buy exactly those where the step ending at t
\* has trend -1 and the step starting at t has trend +1; the two examples of
\* the claim hold, and a trend that never reverses gives the empty set.
C5_TimesAreTurningPoints ==
    /\ (pc = "done" /\ entry = "find_reasonable_times_to_sell") =>
            good_times = TurningPoints(price, 1, -1)
    /\ (pc = "done" /\ entry = "find_reasonable_times_to_buy") =>
            good_times = TurningPoints(price, -1, 1)
    /\ (pc = "done" /\ entry \in {"find_reasonable_times_to_sell",
                                   "find_reasonable_times_to_buy"}) =>
          LET trend == find_monotonicity(price)
          IN  (\A k \in DOMAIN trend : trend[k] = trend[1]) => good_times = {}
    /\ pc = "done" =>
          /\ find_reasonable_times_to_buy(<<11, 13, 10, 15, 9>>) = {2}
          /\ find_reasonable_times_to_sell(<<10, 12, 9, 14, 8>>) = {1, 3}

C5_Witness ==
    /\ pc = "done" /\ entry = "find_reasonable_times_to_sell"
    /\ good_times = {3}
    /\ price[3] = price[4]

\* C6: for a non-constant column of length n >= 2 find_monotonicity returns
\* n - 1 entries, each +1 or -1, also before the first nonzero difference.
C6_NoZeroTrend ==
    (pc = "done" /\ entry = "find_monotonicity") =>
        /\ Len(price) >= 2
        /\ Len(monotonicity) = Len(price) - 1
        /\ \A k \in 1..Len(monotonicity) : monotonicity[k] \in {1, -1}
        /\ \E i, j \in 1..Len(price) : price[i] # price[j]

C6_Witness ==
    /\ pc = "done" /\ entry = "find_monotonicity"
    /\ Len(price) >= 4
    /\ price[1] = price[2] /\ price[2] = price[3]

\* C7 as stated: every flat step carries the trend that preceded it (the
\* sign of the last nonzero difference before it), never the trend that
\* follows it.
C7_FlatCarriesPrecedingTrend ==
    (pc = "done" /\ entry = "find_monotonicity") =>
        LET d == Diff(price)
        IN  \A k \in 1..Len(d) :
                d[k] = 0 =>
                    \E j \in 1..(k - 1) :
                        /\ d[j] # 0
                        /\ \A l \in (j + 1)..(k - 1) : d[l] = 0
                        /\ monotonicity[k] = Sign(d[j])

\* C7 amended: a flat step that has a step before it carries the trend of
\* that step, and the trend changes only at a step whose difference is
\* nonzero and opposite to the trend before it; the flat steps before the
\* first nonzero difference carry the sign of that difference, which is the
\* trend that follows them.  The docstring's example holds.
C7_FlatCarriesTrend ==
    (pc = "done" /\ entry = "find_monotonicity") =>
        LET d == Diff(price)
            m == monotonicity
        IN  /\ \A k \in 2..Len(d) :
                  /\ d[k] = 0 => m[k] = m[k - 1]
                  /\ m[k] # m[k - 1] => (d[k] # 0 /\ Sign(d[k]) = -m[k - 1])
            /\ \A k \in 1..Len(d) :
                  (\A j \in 1..k : d[j] = 0) =>
                      \E j \in (k + 1)..Len(d) :
                          /\ d[j] # 0
                          /\ \A l \in 1..(j - 1) : d[l] = 0
                          /\ m[k] = Sign(d[j])
            /\ find_monotonicity(<<56937, 56935, 56935, 56935, 56935, 56939,
                                   56953, 56957>>) = <<-1, -1, -1, -1, 1, 1, 1>>

C7_Witness ==
    /\ pc = "done" /\ entry = "find_monotonicity"
    /\ Len(price) = 5
    /\ price[1] = price[2]
    /\ price[3] < price[2]
    /\ price[4] = price[3]
    /\ price[5] > price[4]

\* C8 as stated: every recursive call receives a strict subset of the
\* caller's buy_times and a strict subset of the caller's sell_times.
C8_BothSetsShrinkStrictly ==
    \A i \in 1..(Len(stack) - 1) :
        /\ ProperSubset(stack[i + 1].good_times_to_buy, stack[i].good_times_to_buy)
        /\ ProperSubset(stack[i + 1].good_times_to_sell, stack[i].good_times_to_sell)

\* C8 amended: every recursive call receives the caller's buy_times and
\* sell_times without the times at or before the chosen decision time x; the
\* set x was chosen from (buy_times for a buy, sell_times for a sell) becomes
\* a strict subset, the other a subset that may be the whole set.
C8_ChosenSetShrinksStrictly ==
    \A i \in 1..(Len(stack) - 1) :
        LET caller == stack[i]
            callee == stack[i + 1]
            x == Key(i)
        IN  /\ callee.good_times_to_buy =
                  caller.good_times_to_buy \ {t \in Times : t <= x}
            /\ callee.good_times_to_sell =
                  caller.good_times_to_sell \ {t \in Times : t <= x}
            /\ IF HasMoney(caller.current_state)
               THEN ProperSubset(callee.good_times_to_buy, caller.good_times_to_buy)
               ELSE ProperSubset(callee.good_times_to_sell, caller.good_times_to_sell)

C8_Witness ==
    /\ IsBuilder /\ Len(stack) = 3
    /\ stack[2].good_times_to_sell = stack[1].good_times_to_sell
    /\ stack[3].good_times_to_buy = stack[2].good_times_to_buy
    /\ stack[3].good_times_to_buy # {}

\* C9: along every path from a Cash root the edges alternate buy, sell, buy,
\* ..., a buy edge is a member of buy_times and a sell edge a member of
\* sell_times, and the decision times strictly increase.
C9_AlternatingIncreasing ==
    IsBuilder =>
        /\ \A i \in 1..Len(stack) :
              /\ HasMoney(stack[i].current_state) <=> i % 2 = 1
              /\ HasAsset(stack[i].current_state) <=> i % 2 = 0
        /\ \A i \in 1..(Len(stack) - 1) :
              /\ i % 2 = 1 => Key(i) \in args.good_times_to_buy
              /\ i % 2 = 0 => Key(i) \in args.good_times_to_sell
              /\ i >= 2 => Key(i - 1) < Key(i)

C9_Witness ==
    /\ IsBuilder /\ Len(stack) = 4
    /\ Key(2) \in args.good_times_to_buy \cap args.good_times_to_sell
    /\ Key(1) \in args.good_times_to_buy \cap args.good_times_to_sell
    /\ Key(3) \in args.good_times_to_buy \cap args.good_times_to_sell

\* C10: in the pruned tree the money of a Cash state made by a sell is at
\* least the money of the Cash state that made the buy before it, and more
\* when the asset bought is at least 1.
C10_MoneyNeverDecreases ==
    entry = SMART =>
        \A i \in 1..(Len(stack) - 2) :
            HasMoney(stack[i].current_state) =>
                /\ stack[i + 2].current_state.money >= stack[i].current_state.money
                /\ stack[i + 1].current_state.asset >= 1 =>
                      stack[i + 2].current_state.money > stack[i].current_state.money

C10_Witness ==
    /\ entry = SMART /\ Len(stack) >= 3
    /\ stack[2].current_state.asset >= 1
    /\ stack[2].current_state.savings >= 1
    /\ stack[3].current_state.money > stack[1].current_state.money

====
